---- MODULE Spec2Model ----
(***************************************************************************)
(* Model of the backend signer demo:                                       *)
(*   - WalletService       (Key Store, src/unnamed/part_001)               *)
(*   - AbstraxionService   (Session Orchestrator,                          *)
(*                          src/src/services/AbstraxionService.ts)         *)
(*                                                                         *)
(* JavaScript runs one continuation at a time: the body of an async        *)
(* function executes atomically up to its first await, and the rest        *)
(* executes atomically when the awaited promise settles.  Every action     *)
(* below is one such run-to-completion segment; the settling of a          *)
(* collaborator promise and the continuation that awaits it are one        *)
(* action; where connect() awaits initialize(), which awaits the           *)
(* collaborator, the continuation of initialize() and the later one of     *)
(* connect() are two actions.                                              *)
(* The SignerController behind the orchestrator is an external             *)
(* package: its outcomes are nondeterministic, and the state it reports    *)
(* follows the ConnectionState description of the design.                  *)
(***************************************************************************)
EXTENDS Integers, Sequences, FiniteSets, TLC

(***************************************************************************)
(* Bounds                                                                  *)
(***************************************************************************)
NumKeys == 2
MaxPending == 2
MaxPayloadLen == 3
MaxOps == 4
MaxInFlight == 2

(***************************************************************************)
(* Key Store: values                                                       *)
(***************************************************************************)
Identities == {"u1", "u2"}

\* what generatePrivateKey() may return
Keys == 1..NumKeys

\* the characters payloads are built from: "0" is a hex digit, "x" and "g"
\* are not
Chars == {"0", "x", "g"}

HexDigits == {"0", "1", "2", "3", "4", "5", "6", "7", "8", "9",
              "a", "b", "c", "d", "e", "f",
              "A", "B", "C", "D", "E", "F"}

Payloads == UNION {[1..n -> Chars] : n \in 0..MaxPayloadLen}

\* privateKeyToAccount(privateKey).address: one checksummed address per key
privateKeyToAccount(k) == [key |-> k, form |-> "checksum"]

\* account.address.toLowerCase()
toLowerCase(a) == [a EXCEPT !.form = "lower"]

NoAddress == [key |-> 0, form |-> "none"]

\* wallets.get(userId) of an absent entry (undefined)
NoWallet == [privateKey |-> 0, address |-> NoAddress]

NoConfig == [authenticatorType |-> "none", authenticator |-> NoAddress, account |-> NoAddress]

NoPayload == <<"-">>

VARIABLES
    wallets,      \* WalletService.wallets: identity -> WalletData or NoWallet
    pending,      \* createWallet promises fulfilled but not yet observed by
                  \* their callers, in call order: <<[id, ret, fresh]>>
    configs,      \* SignerConfigs handed out by getSignerConfig (closures)
    wlast,        \* the last Key Store call and its outcome
    generated,    \* history: keys generated for an identity since its record
                  \* was last removed
    returned,     \* history: addresses createWallet returned for an identity
                  \* since its record was last removed
    firstRecord   \* history: the record stored by the first createWallet of
                  \* an identity since its record was last removed

kvars == <<wallets, pending, configs, wlast, generated, returned, firstRecord>>

(***************************************************************************)
(* Session Orchestrator: values and state                                  *)
(***************************************************************************)
\* failure messages the external collaborator may raise
Msgs == {"m1", "m2"}

\* every controller is constructed by one orchestrator call
MaxControllers == MaxOps

Controllers == 1..MaxControllers

Slots == 1..MaxInFlight

NoAccount == [granterAddress |-> "", granteeAddress |-> ""]

TheAccount == [granterAddress |-> "xion1granter", granteeAddress |-> "xion1grantee"]

\* ConnectionState values reported by the collaborator's getState()
IdleState == [status |-> "idle", error |-> "", account |-> NoAccount, signingClient |-> FALSE]

ConnectingState == [IdleState EXCEPT !.status = "connecting"]

ConnectedState == [status |-> "connected", error |-> "", account |-> TheAccount, signingClient |-> TRUE]

ErrorState(m) == [IdleState EXCEPT !.status = "error", !.error = m]

FreeSlot == [op |-> "none", pc |-> "free", ctrl |-> 0, retry |-> FALSE, result |-> ""]

\* signer-config providers a caller may bind (() => getSignerConfig(userId))
Providers == {"p1", "p2"}

\* AbstraxionServiceConfig, reduced to the fields the orchestrator's
\* callers validate or replace; "" is a missing value
Configs == [feeGranter : {"", "xion1feegranter"},
            checksum : {"", "abcd"},
            getSignerConfig : Providers]

\* the configuration of the demonstration entry point once its environment
\* variables are set
ValidConfig == [feeGranter |-> "xion1feegranter", checksum |-> "abcd", getSignerConfig |-> "p1"]

NoEvent == [op |-> "none", phase |-> "none", outcome |-> "none", upstream |-> "",
            msg |-> "", ctrl |-> 0, retry |-> FALSE]

VARIABLES
    controller,    \* AbstraxionService.controller: 0 is null, else the id of
                   \* the SignerController it holds
    constructed,   \* number of SignerControllers constructed so far
    cstate,        \* collaborator: what controller c reports from getState()
    cinit,         \* collaborator: progress of c.initialize():
                   \* "none", "pending", "done", "failed"
    initCalls,     \* collaborator: invocations of c.initialize()
    connectCalls,  \* collaborator: invocations of c.connect()
    disconnectCalls, \* collaborator: invocations of c.disconnect()
    destroyCalls,  \* collaborator: invocations of c.destroy()
    persisted,     \* Persistence Port holds a restorable session
    calls,         \* orchestrator calls suspended at an await
    nops,          \* orchestrator calls issued so far
    olast,         \* the last step: which call, its phase and its outcome
    firstInit,     \* history: "none", or "inflight"/"done" for the
                   \* initialization of the current controller when no
                   \* disconnect()/destroy() has run since it was issued
    failedConnect, \* history: the controller whose latest c.connect() failed
    connectIssued, \* history: connect() calls issued on the orchestrator
    config,        \* AbstraxionService.config
    cprov,         \* collaborator: the signer-config provider bound to c
    authorized     \* history: controllers on which the collaborator has
                   \* completed an authorization (connect, or the restore of
                   \* a session by initialize)

ovars == <<controller, constructed, cstate, cinit, initCalls, connectCalls,
           disconnectCalls, destroyCalls, persisted,
           calls, nops, olast, firstInit, failedConnect, connectIssued,
           config, cprov, authorized>>

(***************************************************************************)
(* In-memory Persistence Port (MemoryStorageStrategy): values and state    *)
(***************************************************************************)
\* two instances of MemoryStorageStrategy
Instances == {"s1", "s2"}

StoreKeys == {"k1", "k2"}

\* the strings stored; "" is the empty string
StoreValues == {"", "a", "b"}

\* what getItem resolves to: null, or a string
Null == [present |-> FALSE, value |-> ""]

Some(v) == [present |-> TRUE, value |-> v]

\* new Map()
EmptyMap == [k \in {} |-> ""]

NoStoreCall == [op |-> "none", inst |-> "-", key |-> "-", ret |-> Null]

VARIABLES
    storage,       \* MemoryStorageStrategy.storage of each instance: a Map
    written,       \* history: per instance and key, the value of the last
                   \* setItem not followed by a removeItem or clear
    slast          \* the last storage call and what it resolved to

svars == <<storage, written, slast>>

vars == <<kvars, ovars, svars>>

NoCall == [op |-> "none", id |-> "-", outcome |-> "none", ret |-> NoAddress,
           config |-> NoConfig, payload |-> NoPayload]

(***************************************************************************)
(* Key Store: pure helpers                                                 *)
(***************************************************************************)
\* this.wallets.has(userId)
has_always_false(w, userId) == FALSE

has(w, userId) == w[userId] # NoWallet

\* getWallet(userId): this.wallets.get(userId) || null
getWallet(userId) == wallets[userId]

\* getWalletCount(): this.wallets.size
getWalletCount == Cardinality({i \in Identities : wallets[i] # NoWallet})

\* getAllUserIds()
getAllUserIds == {i \in Identities : wallets[i] # NoWallet}

\* hexMessage.startsWith("0x")
startsWith0x(s) == Len(s) >= 2 /\ s[1] = "0" /\ s[2] = "x"

\* a 0x-prefixed hex string
IsHexString(s) == startsWith0x(s) /\ \A n \in 3..Len(s) : s[n] \in HexDigits

\* this.wallets.delete(userId)
delete_all(w, userId) == [i \in Identities |-> NoWallet]

delete(w, userId) == [w EXCEPT ![userId] = NoWallet]

\* the lookup of getSignerConfig: the wallet, or the NotFound failure
lookup_any(w, userId) == IF w[userId] # NoWallet THEN w[userId]
                         ELSE [privateKey |-> 1, address |-> privateKeyToAccount(1)]

lookup(w, userId) == w[userId]

(***************************************************************************)
(* Key Store: operations                                                   *)
(***************************************************************************)
KInit ==
    /\ wallets = [i \in Identities |-> NoWallet]
    /\ pending = <<>>
    /\ configs = {}
    /\ wlast = NoCall
    /\ generated = [i \in Identities |-> {}]
    /\ returned = [i \in Identities |-> {}]
    /\ firstRecord = [i \in Identities |-> NoWallet]

\* async createWallet(userId): no await in the body, so the whole body is one
\* atomic segment; its promise is observed by the caller later (Observe).
createWallet(userId, k) ==
    /\ Len(pending) < MaxPending
    /\ IF has(wallets, userId)
       THEN /\ wallets' = wallets
            /\ generated' = generated
            /\ firstRecord' = firstRecord
            /\ returned' = [returned EXCEPT ![userId] = @ \cup {wallets[userId].address}]
            /\ pending' = Append(pending, [id |-> userId, ret |-> wallets[userId].address, fresh |-> TRUE])
            /\ wlast' = [NoCall EXCEPT !.op = "createWallet", !.id = userId,
                                       !.outcome = "existing", !.ret = wallets[userId].address]
       ELSE LET account == privateKeyToAccount(k)
                data == [privateKey |-> k, address |-> account]
            IN  /\ wallets' = [wallets EXCEPT ![userId] = data]
                /\ generated' = [generated EXCEPT ![userId] = @ \cup {k}]
                /\ firstRecord' = [firstRecord EXCEPT ![userId] =
                                      IF generated[userId] = {} THEN data ELSE @]
                /\ returned' = [returned EXCEPT ![userId] = @ \cup {account}]
                /\ pending' = Append(pending, [id |-> userId, ret |-> account, fresh |-> TRUE])
                /\ wlast' = [NoCall EXCEPT !.op = "createWallet", !.id = userId,
                                           !.outcome = "created", !.ret = account]
    /\ UNCHANGED configs
    /\ UNCHANGED <<ovars, svars>>

\* the caller's continuation of `await createWallet(...)` runs
Observe ==
    /\ pending # <<>>
    /\ pending' = Tail(pending)
    /\ wlast' = [NoCall EXCEPT !.op = "observe", !.id = Head(pending).id,
                               !.outcome = "resolved", !.ret = Head(pending).ret]
    /\ UNCHANGED <<wallets, configs, generated, returned, firstRecord>>
    /\ UNCHANGED <<ovars, svars>>

\* history bookkeeping when records are removed
Forget(ids) ==
    /\ generated' = [i \in Identities |-> IF i \in ids THEN {} ELSE generated[i]]
    /\ returned' = [i \in Identities |-> IF i \in ids THEN {} ELSE returned[i]]
    /\ firstRecord' = [i \in Identities |-> IF i \in ids THEN NoWallet ELSE firstRecord[i]]
    /\ pending' = [n \in 1..Len(pending) |->
                     IF pending[n].id \in ids THEN [pending[n] EXCEPT !.fresh = FALSE]
                     ELSE pending[n]]

\* deleteWallet(userId)
deleteWallet(userId) ==
    /\ wallets' = delete(wallets, userId)
    /\ Forget({i \in Identities : wallets'[i] = NoWallet /\ wallets[i] # NoWallet} \cup {userId})
    /\ wlast' = [NoCall EXCEPT !.op = "deleteWallet", !.id = userId, !.outcome = "ok"]
    /\ UNCHANGED configs
    /\ UNCHANGED <<ovars, svars>>

\* clearAll()
clearAll ==
    /\ wallets' = [i \in Identities |-> NoWallet]
    /\ Forget(Identities)
    /\ wlast' = [NoCall EXCEPT !.op = "clearAll", !.outcome = "ok"]
    /\ UNCHANGED configs
    /\ UNCHANGED <<ovars, svars>>

\* async getSignerConfig(userId)
getSignerConfig(userId) ==
    LET wallet == lookup(wallets, userId)
    IN  /\ IF wallet = NoWallet
           THEN /\ wlast' = [NoCall EXCEPT !.op = "getSignerConfig", !.id = userId,
                                           !.outcome = "NotFound"]
                /\ configs' = configs
           ELSE LET cfg == [authenticatorType |-> "EthWallet",
                            authenticator |-> toLowerCase(wallet.address),
                            account |-> wallet.address]
                IN  /\ wlast' = [NoCall EXCEPT !.op = "getSignerConfig", !.id = userId,
                                               !.outcome = "ok", !.config = cfg]
                    /\ configs' = configs \cup {cfg}
        /\ UNCHANGED <<wallets, pending, generated, returned, firstRecord>>
        /\ UNCHANGED <<ovars, svars>>

\* the signMessage closure of a SignerConfig handed out earlier (every
\* closure runs the same checks, whichever account it captured).  The
\* signing primitive (account.signMessage of viem) is an external library:
\* outcome "primitive" records that hexMessage was handed to it as
\* { message: { raw: hexMessage } }.
signMessage(hexMessage) ==
    /\ configs # {}
    /\ IF ~startsWith0x(hexMessage)
       THEN wlast' = [NoCall EXCEPT !.op = "signMessage", !.outcome = "InvalidFormat",
                                    !.payload = hexMessage]
       ELSE wlast' = [NoCall EXCEPT !.op = "signMessage", !.outcome = "primitive",
                                    !.payload = hexMessage]
    /\ UNCHANGED <<wallets, pending, configs, generated, returned, firstRecord>>
    /\ UNCHANGED <<ovars, svars>>

(***************************************************************************)
(* Session Orchestrator: pure helpers                                      *)
(***************************************************************************)
\* initialize(): `if (this.controller) return; // Already initialized`
alreadyInitialized_never(ctl) == FALSE

alreadyInitialized_onceSettled(ctl) == ctl # 0 /\ cinit[ctl] = "done"

alreadyInitialized(ctl) == ctl # 0

\* connect(): `if (!this.controller) await this.initialize()`
needsInitialize_always(ctl) == TRUE

needsInitialize(ctl) == ctl = 0

\* getState()
getStateOf_cached(ctl, cs) ==
    IF ctl # 0 THEN cs[ctl] ELSE IF constructed = 0 THEN IdleState ELSE cs[constructed]

getStateOf(ctl, cs) == IF ctl = 0 THEN IdleState ELSE cs[ctl]

getState == getStateOf(controller, cstate)

\* isConnected()
isConnected == getState.status = "connected"

\* getError(): state.error when the status is "error", else null
getErrorOf(st) == IF st.status = "error" THEN st.error ELSE "null"

getError == getErrorOf(getState)

\* validateConfig(config) of config/defaultConfig.ts: the error it throws,
\* or "ok"
validateConfig(cfg) ==
    IF cfg.checksum = ""
    THEN "CHECKSUM environment variable is required for smart account contract"
    ELSE IF cfg.feeGranter = ""
         THEN "FEE_GRANTER_ADDRESS environment variable is required for signer mode"
         ELSE "ok"

\* the errors of the accessors
NotConnected == "Not connected. Call connect() first."

NoSigningClient == "Not connected or signing client not available. Call connect() first."

\* getGranterAddress() on the state st
getGranterAddressOf_unchecked(st) == st.account.granterAddress

getGranterAddressOf(st) ==
    IF st.status # "connected" THEN NotConnected ELSE st.account.granterAddress

\* getGranteeAddress() on the state st
getGranteeAddressOf_unchecked(st) == st.account.granteeAddress

getGranteeAddressOf(st) ==
    IF st.status # "connected" THEN NotConnected ELSE st.account.granteeAddress

\* getSigningClient() on the state st; "client" is the signing handle
getSigningClientOf(st) ==
    IF st.status = "connected" /\ st.signingClient THEN "client" ELSE NoSigningClient

\* the errors of the NotConnected kind
NotConnectedErrors == {NotConnected, NoSigningClient}

\* what an accessor call leaves to its caller: the value, or the error thrown
Accessed(op, v) ==
    [NoEvent EXCEPT !.op = op, !.phase = "return",
                    !.outcome = IF v \in NotConnectedErrors THEN "rejected" ELSE "resolved",
                    !.msg = v, !.ctrl = controller]

\* updateGetSignerConfig(): the provider of the controller ctl becomes fn
bindProvider_none(cp, ctl, fn) == cp

bindProvider(cp, ctl, fn) == IF ctl # 0 THEN [cp EXCEPT ![ctl] = fn] ELSE cp

\* updateGetSignerConfig(): `this.config.getSignerConfig = fn`
storeProvider(cfg, fn) == [cfg EXCEPT !.getSignerConfig = fn]

\* disconnect(): `this.controller = null` after the await
dropController_keep(ctl) == ctl

dropController(ctl) == 0

\* a rejection of an awaited collaborator promise leaves the async method
\* as the rejection of its own promise: there is no try/catch around any
\* await of AbstraxionService
rethrow(m) == m

\* what an awaited collaborator promise may settle to
Outcomes == {"ok"} \cup Msgs

FreeSlots == {s \in Slots : calls[s].pc = "free"}

NextSlot == CHOOSE s \in FreeSlots : \A t \in FreeSlots : s <= t

Event(op, phase, outcome, c) ==
    [NoEvent EXCEPT !.op = op, !.phase = phase, !.outcome = outcome, !.ctrl = c]

Rejected(op, c, m) ==
    [NoEvent EXCEPT !.op = op, !.phase = "settle", !.outcome = "rejected",
                    !.upstream = m, !.msg = rethrow(m), !.ctrl = c]

(***************************************************************************)
(* External authorization collaborator (SignerController): the state it    *)
(* reports, as the design describes it                                     *)
(***************************************************************************)
\* c.initialize() or c.connect() has been invoked
collabStart(cs, c) == [cs EXCEPT ![c] = ConnectingState]

\* c.initialize() succeeded: Connected if a session was restored, else the
\* neutral pre-connect state
collabInitialized(cs, c, restored) ==
    [cs EXCEPT ![c] = IF restored THEN ConnectedState ELSE IdleState]

\* c.connect() succeeded
collabConnected(cs, c) == [cs EXCEPT ![c] = ConnectedState]

\* an operation of c failed with message m
collabFailed(cs, c, m) == [cs EXCEPT ![c] = ErrorState(m)]

\* c.disconnect() succeeded
collabDisconnected(cs, c) == [cs EXCEPT ![c] = IdleState]

\* the session in the Persistence Port: saved by a successful c.connect(),
\* removed by a successful c.disconnect()
collabSessionSaved == TRUE

collabSessionRemoved == FALSE

\* the controllers on which an authorization has completed, once c has
\* connected or (granted) restored a session
collabAuthorized(auth, c, granted) == IF granted THEN auth \cup {c} ELSE auth

(***************************************************************************)
(* Session Orchestrator: operations                                        *)
(***************************************************************************)
OInitWith(cfg) ==
    /\ config = cfg
    /\ cprov = [c \in Controllers |-> "none"]
    /\ authorized = {}
    /\ controller = 0
    /\ constructed = 0
    /\ cstate = [c \in Controllers |-> IdleState]
    /\ cinit = [c \in Controllers |-> "none"]
    /\ initCalls = [c \in Controllers |-> 0]
    /\ connectCalls = [c \in Controllers |-> 0]
    /\ disconnectCalls = [c \in Controllers |-> 0]
    /\ destroyCalls = [c \in Controllers |-> 0]
    /\ persisted \in BOOLEAN
    /\ calls = [s \in Slots |-> FreeSlot]
    /\ nops = 0
    /\ olast = NoEvent
    /\ firstInit = "none"
    /\ failedConnect = 0
    /\ connectIssued = 0

\* the orchestrator as the entry point constructs it
OInit == OInitWith(ValidConfig)

\* initialize(), lines 83-144: build the configuration, construct the
\* SignerController, store it in this.controller, invoke c.initialize() and
\* suspend on it in slot s with program counter pc
constructAndInitialize(s, op, pc) ==
    LET c == constructed + 1
    IN  /\ constructed < MaxControllers
        /\ constructed' = c
        /\ controller' = c
        /\ initCalls' = [initCalls EXCEPT ![c] = @ + 1]
        /\ cinit' = [cinit EXCEPT ![c] = "pending"]
        /\ cprov' = [cprov EXCEPT ![c] = config.getSignerConfig]
        /\ cstate' = collabStart(cstate, c)
        /\ calls' = [calls EXCEPT ![s] = [op |-> op, pc |-> pc, ctrl |-> c, retry |-> FALSE,
                                          result |-> ""]]
        /\ olast' = Event(op, "suspend", "pending", c)
        /\ firstInit' = "inflight"

\* the history of the current controller's initialization, once the
\* c.initialize() of controller c has settled
InitSettled(c) == IF firstInit = "inflight" /\ controller = c THEN "done" ELSE firstInit

\* async initialize(), up to its await
initialize ==
    /\ nops < MaxOps
    /\ nops' = nops + 1
    /\ IF alreadyInitialized(controller)
       THEN /\ olast' = Event("initialize", "return", "resolved", controller)
            /\ UNCHANGED <<controller, constructed, cstate, cinit, initCalls, calls, firstInit,
                           cprov>>
       ELSE /\ FreeSlots # {}
            /\ constructAndInitialize(NextSlot, "initialize", "init_await")
    /\ UNCHANGED <<connectCalls, disconnectCalls, destroyCalls, persisted, failedConnect,
                   connectIssued, config, authorized>>
    /\ UNCHANGED <<kvars, svars>>

\* initialize() after `await this.controller.initialize()` settled with r.
\* Called on its own it is over; called by connect() (line 153) it settles
\* the promise connect() awaits, and connect() resumes in a later turn of
\* the job queue.
initializeSettle(s, r) ==
    LET c == calls[s].ctrl
    IN  /\ calls[s].pc \in {"init_await", "conn_init_await"}
        /\ IF r = "ok"
           THEN /\ cinit' = [cinit EXCEPT ![c] = "done"]
                /\ cstate' = collabInitialized(cstate, c, persisted)
                /\ authorized' = collabAuthorized(authorized, c, persisted)
                /\ olast' = Event("initialize", "settle", "resolved", c)
           ELSE /\ cinit' = [cinit EXCEPT ![c] = "failed"]
                /\ cstate' = collabFailed(cstate, c, r)
                /\ authorized' = authorized
                /\ olast' = Rejected("initialize", c, r)
        /\ firstInit' = InitSettled(c)
        /\ calls' = IF calls[s].pc = "init_await"
                    THEN [calls EXCEPT ![s] = FreeSlot]
                    ELSE [calls EXCEPT ![s].pc = "conn_resume", ![s].result = r]
        /\ UNCHANGED <<controller, constructed, initCalls, connectCalls, disconnectCalls,
                       destroyCalls, persisted, nops, failedConnect, connectIssued,
                       config, cprov>>
        /\ UNCHANGED <<kvars, svars>>

\* connect(), line 160: invoke this.controller.connect() and suspend on it
invokeConnect(s, cs, phase, retry) ==
    /\ connectCalls' = [connectCalls EXCEPT ![controller] = @ + 1]
    /\ cstate' = collabStart(cs, controller)
    /\ calls' = [calls EXCEPT ![s] = [op |-> "connect", pc |-> "conn_await",
                                      ctrl |-> controller, retry |-> retry,
                                      result |-> ""]]
    /\ olast' = [Event("connect", phase, "pending", controller) EXCEPT !.retry = retry]

\* async connect(), up to its first await
connect ==
    /\ nops < MaxOps
    /\ FreeSlots # {}
    /\ nops' = nops + 1
    /\ connectIssued' = connectIssued + 1
    /\ IF needsInitialize(controller)
       THEN /\ constructAndInitialize(NextSlot, "connect", "conn_init_await")
            /\ UNCHANGED connectCalls
       ELSE /\ invokeConnect(NextSlot, cstate, "suspend", failedConnect = controller)
            /\ UNCHANGED <<controller, constructed, cinit, initCalls, firstInit, cprov>>
    /\ UNCHANGED <<disconnectCalls, destroyCalls, persisted, failedConnect, config,
                   authorized>>
    /\ UNCHANGED <<kvars, svars>>

\* connect() resumed after `await this.initialize()`: lines 153-160
connectAfterInitialize(s) ==
    LET c == calls[s].ctrl
        r == calls[s].result
    IN  /\ calls[s].pc = "conn_resume"
        /\ IF r # "ok"
           THEN /\ olast' = Rejected("connect", c, r)
                /\ calls' = [calls EXCEPT ![s] = FreeSlot]
                /\ UNCHANGED <<connectCalls, cstate>>
           ELSE IF controller = 0
                THEN /\ olast' = [Event("connect", "settle", "rejected", 0)
                                     EXCEPT !.msg = "Failed to initialize controller"]
                     /\ calls' = [calls EXCEPT ![s] = FreeSlot]
                     /\ UNCHANGED <<connectCalls, cstate>>
                ELSE invokeConnect(s, cstate, "resume", FALSE)
        /\ UNCHANGED <<controller, constructed, cinit, initCalls, disconnectCalls,
                       destroyCalls, persisted, nops, firstInit, failedConnect,
                       connectIssued, config, cprov, authorized>>
        /\ UNCHANGED <<kvars, svars>>

\* connect() after `await this.controller.connect()` settled with r
connectSettle(s, r) ==
    LET c == calls[s].ctrl
    IN  /\ calls[s].pc = "conn_await"
        /\ IF r = "ok"
           THEN /\ cstate' = collabConnected(cstate, c)
                /\ authorized' = collabAuthorized(authorized, c, TRUE)
                /\ persisted' = collabSessionSaved
                /\ failedConnect' = IF failedConnect = c THEN 0 ELSE failedConnect
                /\ olast' = [Event("connect", "settle", "resolved", c)
                                EXCEPT !.retry = calls[s].retry]
           ELSE /\ cstate' = collabFailed(cstate, c, r)
                /\ authorized' = authorized
                /\ persisted' = persisted
                /\ failedConnect' = c
                /\ olast' = [Rejected("connect", c, r) EXCEPT !.retry = calls[s].retry]
        /\ calls' = [calls EXCEPT ![s] = FreeSlot]
        /\ UNCHANGED <<controller, constructed, cinit, initCalls, connectCalls,
                       disconnectCalls, destroyCalls, nops, firstInit, connectIssued,
                       config, cprov>>
        /\ UNCHANGED <<kvars, svars>>

\* async disconnect(), up to its await
disconnect ==
    /\ nops < MaxOps
    /\ nops' = nops + 1
    /\ firstInit' = "none"
    /\ IF controller = 0
       THEN /\ olast' = Event("disconnect", "return", "resolved", 0)
            /\ UNCHANGED <<calls, disconnectCalls>>
       ELSE /\ FreeSlots # {}
            /\ disconnectCalls' = [disconnectCalls EXCEPT ![controller] = @ + 1]
            /\ calls' = [calls EXCEPT ![NextSlot] = [op |-> "disconnect", pc |-> "disc_await",
                                                     ctrl |-> controller, retry |-> FALSE,
                                                     result |-> ""]]
            /\ olast' = Event("disconnect", "suspend", "pending", controller)
    /\ UNCHANGED <<controller, constructed, cstate, cinit, initCalls, connectCalls,
                   destroyCalls, persisted, failedConnect, connectIssued, config, cprov,
                   authorized>>
    /\ UNCHANGED <<kvars, svars>>

\* disconnect() after `await this.controller.disconnect()` settled with r
disconnectSettle(s, r) ==
    LET c == calls[s].ctrl
    IN  /\ calls[s].pc = "disc_await"
        /\ firstInit' = "none"
        /\ IF r = "ok"
           THEN /\ cstate' = collabDisconnected(cstate, c)
                /\ persisted' = collabSessionRemoved
                /\ controller' = dropController(controller)
                /\ olast' = Event("disconnect", "settle", "resolved", c)
           ELSE /\ cstate' = collabFailed(cstate, c, r)
                /\ persisted' = persisted
                /\ controller' = controller
                /\ olast' = Rejected("disconnect", c, r)
        /\ calls' = [calls EXCEPT ![s] = FreeSlot]
        /\ UNCHANGED <<constructed, cinit, initCalls, connectCalls, disconnectCalls,
                       destroyCalls, nops, failedConnect, connectIssued, config, cprov,
                       authorized>>
        /\ UNCHANGED <<kvars, svars>>

\* destroy(): `this.controller.destroy()`
invokeDestroy_skip(dc, ctl) == dc

invokeDestroy(dc, ctl) == [dc EXCEPT ![ctl] = @ + 1]

\* destroy()
destroy ==
    /\ nops < MaxOps
    /\ nops' = nops + 1
    /\ firstInit' = "none"
    /\ IF controller # 0
       THEN /\ destroyCalls' = invokeDestroy(destroyCalls, controller)
            /\ controller' = 0
       ELSE UNCHANGED <<destroyCalls, controller>>
    /\ olast' = Event("destroy", "return", "resolved", controller)
    /\ UNCHANGED <<constructed, cstate, cinit, initCalls, connectCalls, disconnectCalls,
                   persisted, calls, failedConnect, connectIssued, config, cprov,
                   authorized>>
    /\ UNCHANGED <<kvars, svars>>

\* what no accessor writes
accvars == <<controller, constructed, cstate, cinit, initCalls, connectCalls,
             disconnectCalls, destroyCalls, persisted, calls, nops, firstInit,
             failedConnect, connectIssued, config, cprov, authorized>>

\* getGranterAddress()
getGranterAddress ==
    /\ olast' = Accessed("getGranterAddress", getGranterAddressOf(getState))
    /\ UNCHANGED accvars
    /\ UNCHANGED <<kvars, svars>>

\* getGranteeAddress()
getGranteeAddress ==
    /\ olast' = Accessed("getGranteeAddress", getGranteeAddressOf(getState))
    /\ UNCHANGED accvars
    /\ UNCHANGED <<kvars, svars>>

\* getSigningClient()
getSigningClient ==
    /\ olast' = Accessed("getSigningClient", getSigningClientOf(getState))
    /\ UNCHANGED accvars
    /\ UNCHANGED <<kvars, svars>>

\* updateGetSignerConfig(fn)
updateGetSignerConfig(fn) ==
    /\ nops < MaxOps
    /\ nops' = nops + 1
    /\ cprov' = bindProvider(cprov, controller, fn)
    /\ config' = storeProvider(config, fn)
    /\ olast' = [Event("updateGetSignerConfig", "return", "resolved", controller)
                    EXCEPT !.msg = fn]
    /\ UNCHANGED <<controller, constructed, cstate, cinit, initCalls, connectCalls,
                   disconnectCalls, destroyCalls, persisted, calls, firstInit,
                   failedConnect, connectIssued, authorized>>
    /\ UNCHANGED <<kvars, svars>>

(***************************************************************************)
(* In-memory Persistence Port: operations                                  *)
(***************************************************************************)
\* Map.prototype.has / set / delete
mapHas(m, k) == k \in DOMAIN m

mapSet(m, k, v) == [x \in DOMAIN m \cup {k} |-> IF x = k THEN v ELSE m[x]]

mapDelete(m, k) == [x \in DOMAIN m \ {k} |-> m[x]]

\* a string is truthy unless it is empty
truthy(v) == v # ""

\* `this.storage.get(key) || null`: undefined and "" both give null
getItemOf(m, k) == IF mapHas(m, k) /\ truthy(m[k]) THEN Some(m[k]) ELSE Null

SInit ==
    /\ storage = [i \in Instances |-> EmptyMap]
    /\ written = [i \in Instances |-> [k \in StoreKeys |-> Null]]
    /\ slast = NoStoreCall

\* getItem(key) on instance i
getItem(i, k) ==
    /\ slast' = [op |-> "getItem", inst |-> i, key |-> k, ret |-> getItemOf(storage[i], k)]
    /\ UNCHANGED <<storage, written>>
    /\ UNCHANGED <<kvars, ovars>>

\* setItem(key, value) on instance i
setItem(i, k, v) ==
    /\ storage' = [storage EXCEPT ![i] = mapSet(@, k, v)]
    /\ written' = [written EXCEPT ![i][k] = Some(v)]
    /\ slast' = [op |-> "setItem", inst |-> i, key |-> k, ret |-> Null]
    /\ UNCHANGED <<kvars, ovars>>

\* removeItem(key) on instance i
removeItem(i, k) ==
    /\ storage' = [storage EXCEPT ![i] = mapDelete(@, k)]
    /\ written' = [written EXCEPT ![i][k] = Null]
    /\ slast' = [op |-> "removeItem", inst |-> i, key |-> k, ret |-> Null]
    /\ UNCHANGED <<kvars, ovars>>

\* clear() on instance i
clear(i) ==
    /\ storage' = [storage EXCEPT ![i] = EmptyMap]
    /\ written' = [written EXCEPT ![i] = [k \in StoreKeys |-> Null]]
    /\ slast' = [op |-> "clear", inst |-> i, key |-> "-", ret |-> Null]
    /\ UNCHANGED <<kvars, ovars>>

(***************************************************************************)
(* Specifications                                                          *)
(***************************************************************************)
Init == KInit /\ OInit /\ SInit

\* a Key Store with no orchestrator session around it
KeyStoreInit == Init /\ ~persisted

KNext ==
    \/ \E i \in Identities, k \in Keys : createWallet(i, k)
    \/ Observe
    \/ \E i \in Identities : deleteWallet(i)
    \/ clearAll
    \/ \E i \in Identities : getSignerConfig(i)

\* the Key Store's records.  signMessage is left to SignerSpec: the closure
\* reads the account it captured, not the store, and writes nothing.
KeyStoreSpec == KeyStoreInit /\ [][KNext]_vars

SNext ==
    \/ \E i \in Identities, k \in Keys : createWallet(i, k)
    \/ Observe
    \/ \E i \in Identities : getSignerConfig(i)
    \/ \E s \in Payloads : signMessage(s)

\* the signing capabilities the Key Store hands out
SignerSpec == KeyStoreInit /\ [][SNext]_vars

Next ==
    \/ initialize
    \/ \E s \in Slots, r \in Outcomes : initializeSettle(s, r)
    \/ connect
    \/ \E s \in Slots : connectAfterInitialize(s)
    \/ \E s \in Slots, r \in Outcomes : connectSettle(s, r)
    \/ disconnect
    \/ \E s \in Slots, r \in Outcomes : disconnectSettle(s, r)
    \/ destroy

\* the lifecycle of the Session Orchestrator with its collaborator, under
\* one signer-config provider
Spec == Init /\ [][Next]_vars

ANext ==
    \/ Next
    \/ getGranterAddress
    \/ getGranteeAddress
    \/ getSigningClient

\* the lifecycle, observed through the accessors of a connection
AccessSpec == Init /\ [][ANext]_vars

RNext ==
    \/ Next
    \/ \E fn \in Providers : updateGetSignerConfig(fn)

\* the Session Orchestrator whose caller also replaces the provider
RotateSpec == Init /\ [][RNext]_vars

\* the orchestrator constructed with any configuration
ConfigInit == KInit /\ SInit /\ \E cfg \in Configs : OInitWith(cfg)

StNext ==
    \/ \E i \in Instances, k \in StoreKeys : getItem(i, k)
    \/ \E i \in Instances, k \in StoreKeys, v \in StoreValues : setItem(i, k, v)
    \/ \E i \in Instances, k \in StoreKeys : removeItem(i, k)
    \/ \E i \in Instances : clear(i)

\* two instances of the in-memory Persistence Port on their own
StorageSpec == KeyStoreInit /\ [][StNext]_vars

ConfigSpec == ConfigInit /\ [][Next]_vars

(***************************************************************************)
(* Key Store: properties                                                   *)
(***************************************************************************)
\* C1: as long as an identity's record is not removed, every createWallet
\* of that identity returns the address of the first one, exactly one key
\* pair was generated for it, the store holds one record per created
\* identity, and getWallet still holds the first record.
C1_FirstRecordKept ==
    /\ \A i \in Identities :
          /\ Cardinality(generated[i]) <= 1
          /\ Cardinality(returned[i]) <= 1
          /\ generated[i] # {} =>
                /\ getWallet(i) = firstRecord[i]
                /\ getWallet(i).privateKey \in generated[i]
                /\ returned[i] = {firstRecord[i].address}
    /\ getWalletCount = Cardinality({i \in Identities : generated[i] # {}})
    /\ wlast.op = "createWallet" => wlast.ret = firstRecord[wlast.id].address

\* createWallet(u1), createWallet(u1), createWallet(u2): the second call for
\* an identity found the record and the store holds two records
C1_Witness ==
    /\ wlast.op = "createWallet"
    /\ wlast.outcome = "existing"
    /\ getWalletCount = 2

\* C2: createWallet calls for one identity that are in flight together
\* (none has been observed by its caller, no removal since) all carry the
\* address of the one record that was created for that identity.
C2_ConcurrentCreateOneRecord ==
    \A n, m \in 1..Len(pending) :
        (pending[n].id = pending[m].id /\ pending[n].fresh /\ pending[m].fresh) =>
            /\ pending[n].ret = pending[m].ret
            /\ pending[n].ret = getWallet(pending[n].id).address
            /\ Cardinality(generated[pending[n].id]) = 1

\* two calls for the same identity are in flight, neither observed
C2_Witness ==
    /\ Len(pending) = 2
    /\ pending[1].id = pending[2].id
    /\ pending[1].fresh /\ pending[2].fresh
    /\ wlast.op = "createWallet"

\* C3: createWallet(i), deleteWallet(i) and getSignerConfig(i) leave the
\* record of every other identity as it was.
C3_IdentityIsolation ==
    [][\A i \in Identities :
         (wlast'.op \in {"createWallet", "deleteWallet", "getSignerConfig"} /\ wlast'.id = i) =>
             \A j \in Identities \ {i} : wallets'[j] = wallets[j]]_kvars

\* a record was deleted while another identity holds one
C3_Witness ==
    /\ wlast.op = "deleteWallet"
    /\ \E j \in Identities \ {wlast.id} : wallets[j] # NoWallet
    /\ wallets[wlast.id] = NoWallet

\* C4: getSignerConfig of an identity without a record fails with NotFound
\* and changes neither the store nor the set of capabilities handed out.
C4_SignerConfigNotFound ==
    [][(wlast'.op = "getSignerConfig" /\ wallets[wlast'.id] = NoWallet) =>
          /\ wlast'.outcome = "NotFound"
          /\ wlast'.config = NoConfig
          /\ wallets' = wallets
          /\ configs' = configs]_kvars

\* getSignerConfig failed for an identity without a record while another
\* identity's capability had been handed out
C4_Witness ==
    /\ wlast.op = "getSignerConfig"
    /\ wlast.outcome = "NotFound"
    /\ wallets[wlast.id] = NoWallet
    /\ configs # {}

\* C5: signMessage fails with InvalidFormat for every payload that is not a
\* 0x-prefixed hex string and never hands such a payload to the signing
\* primitive.
C5_RejectsNonHex ==
    (wlast.op = "signMessage" /\ ~IsHexString(wlast.payload)) =>
        wlast.outcome = "InvalidFormat"

(***************************************************************************)
(* Session Orchestrator: properties                                        *)
(***************************************************************************)
\* this step issues an initialize() call
InitializeIssued == olast'.op = "initialize" /\ nops' = nops + 1

\* this step issues a connect() call
ConnectIssued == olast'.op = "connect" /\ nops' = nops + 1

\* this step ends a connect() call whose awaited collaborator promise was
\* rejected
ConnectRejected ==
    /\ \E s \in Slots : calls[s].op = "connect" /\ calls'[s].pc = "free"
    /\ olast'.upstream \in Msgs

RECURSIVE SumConnectCalls(_)
SumConnectCalls(n) == IF n = 0 THEN 0 ELSE connectCalls[n] + SumConnectCalls(n - 1)

\* C6: an initialize() issued after an initialize() has completed, with no
\* disconnect()/destroy() in between, returns at once and changes nothing:
\* no controller is constructed, the collaborator's initialize is not
\* invoked, and getState() is what it was.
C6_InitializeIdempotent ==
    [][(InitializeIssued /\ firstInit = "done") =>
          /\ olast'.phase = "return"
          /\ olast'.outcome = "resolved"
          /\ constructed' = constructed
          /\ controller' = controller
          /\ initCalls' = initCalls
          /\ getStateOf(controller', cstate') = getState
          /\ <<cstate, cinit, connectCalls, persisted, calls>>' =
                 <<cstate, cinit, connectCalls, persisted, calls>>]_vars

\* a second initialize() has returned after the first one completed
C6_Witness ==
    /\ olast.op = "initialize"
    /\ olast.phase = "return"
    /\ firstInit = "done"
    /\ constructed = 1
    /\ initCalls[controller] = 1

\* C7: an initialize() issued while the initialize() of the current
\* controller is still suspended on the collaborator constructs no controller
\* and does not invoke the collaborator's initialize; it finds the
\* controller of the attempt in progress.  No controller has its initialize
\* invoked twice.
C7_NoDuplicateInitialize ==
    /\ [](\A c \in Controllers : initCalls[c] <= 1)
    /\ [][(InitializeIssued /\ firstInit = "inflight") =>
             /\ olast'.phase = "return"
             /\ olast'.ctrl = controller
             /\ cinit[controller] = "pending"
             /\ constructed' = constructed
             /\ controller' = controller
             /\ initCalls' = initCalls
             /\ initCalls[controller] = 1]_vars

\* a second initialize() has returned while the first is still suspended
C7_Witness ==
    /\ olast.op = "initialize"
    /\ olast.phase = "return"
    /\ firstInit = "inflight"
    /\ \E s \in Slots : calls[s].pc = "init_await" /\ calls[s].ctrl = controller
    /\ constructed = 1

\* C8: the collaborator's connect is invoked only on a controller whose
\* initialize has completed.
C8_ConnectOnlyAfterInitialize ==
    [][\A c \in Controllers :
         connectCalls'[c] > connectCalls[c] => cinit'[c] = "done"]_vars

\* C9: when the collaborator fails during connect(), the caller of
\* connect() gets the failure with the upstream message, and the
\* orchestrator then reports status error from getState() and the same
\* message from getError().
C9_ConnectFailureRaisedAndRecorded ==
    [][ConnectRejected =>
          /\ olast'.outcome = "rejected"
          /\ olast'.msg = olast'.upstream
          /\ getStateOf(controller', cstate').status = "error"
          /\ getErrorOf(getStateOf(controller', cstate')) = olast'.upstream]_vars

\* C10: a connect() issued while the orchestrator reports the error of a
\* failed connect invokes the collaborator's connect again on the controller
\* it holds, without a disconnect(); when that attempt succeeds the
\* orchestrator reports connected; and the collaborator's connect is never
\* invoked more often than connect() was called.
C10_RetryAfterError ==
    /\ [](SumConnectCalls(MaxControllers) <= connectIssued)
    /\ [][(ConnectIssued /\ failedConnect = controller /\ getState.status = "error") =>
             /\ controller' = controller
             /\ constructed' = constructed
             /\ connectCalls'[controller] = connectCalls[controller] + 1
             /\ \E s \in Slots : calls'[s].pc = "conn_await" /\ calls'[s].retry]_vars
    /\ [][(olast'.op = "connect" /\ olast'.outcome = "resolved" /\ olast'.retry
              /\ controller' = olast'.ctrl) =>
             getStateOf(controller', cstate').status = "connected"]_vars

\* a connect() failed, a second connect() was issued without a disconnect()
\* and succeeded
C10_Witness ==
    /\ olast.op = "connect"
    /\ olast.outcome = "resolved"
    /\ olast.retry
    /\ controller = olast.ctrl
    /\ connectCalls[controller] = 2
    /\ disconnectCalls[controller] = 0
    /\ isConnected

\* C11: every disconnect() that has completed has succeeded and left the
\* orchestrator with no controller and getState() idle, whatever the state
\* before it and whatever the outcome of the collaborator's disconnect.
C11_DisconnectAlwaysIdle ==
    (olast.op = "disconnect" /\ olast.phase \in {"return", "settle"}) =>
        /\ olast.outcome = "resolved"
        /\ controller = 0
        /\ getState = IdleState

\* a disconnect() has completed successfully
DisconnectCompleted == olast.op = "disconnect" /\ olast.outcome = "resolved"

\* C12: when a disconnect() has completed the orchestrator holds no
\* controller and isConnected() is false; a connect() issued then constructs
\* a new controller, one that was never connected or torn down and is not
\* the controller just disconnected, and starts its initialization before
\* anything else.
C12_ConnectAfterDisconnectIsFresh ==
    /\ [](DisconnectCompleted => (controller = 0 /\ ~isConnected))
    /\ [][(DisconnectCompleted /\ ConnectIssued) =>
             LET c == controller'
             IN  /\ c = constructed + 1
                 /\ constructed' = c
                 /\ c # olast.ctrl
                 /\ initCalls'[c] = 1
                 /\ cinit'[c] = "pending"
                 /\ connectCalls'[c] = 0
                 /\ disconnectCalls'[c] = 0
                 /\ destroyCalls'[c] = 0
                 /\ connectCalls' = connectCalls
                 /\ \E s \in Slots : /\ calls'[s].pc = "conn_init_await"
                                     /\ calls'[s].ctrl = c]_vars

\* connect(), disconnect(), connect(): the first controller was disconnected
\* and the orchestrator is connected again through a second one
C12_Witness ==
    /\ olast.op = "connect"
    /\ olast.outcome = "resolved"
    /\ controller = 2
    /\ olast.ctrl = 2
    /\ disconnectCalls[1] = 1
    /\ cstate[1] = IdleState
    /\ initCalls[2] = 1
    /\ connectCalls[2] = 1
    /\ isConnected

DestroyIssued == olast'.op = "destroy" /\ nops' = nops + 1

\* C13: destroy(), in any state, leaves the orchestrator with no controller
\* and getState() idle; the collaborator's destroy is invoked once on the
\* controller it held, if it held one, and on no other; with no controller
\* it changes nothing.
C13_DestroyReleases ==
    [][DestroyIssued =>
          /\ olast'.outcome = "resolved"
          /\ controller' = 0
          /\ getStateOf(controller', cstate') = IdleState
          /\ \A c \in Controllers :
                destroyCalls'[c] = destroyCalls[c] + (IF c = controller THEN 1 ELSE 0)
          /\ <<constructed, cstate, cinit, initCalls, connectCalls, disconnectCalls,
               persisted, calls, config, cprov>>' =
             <<constructed, cstate, cinit, initCalls, connectCalls, disconnectCalls,
               persisted, calls, config, cprov>>]_vars

\* destroy() of a connected orchestrator: the collaborator's destroy was
\* invoked on the controller and the orchestrator is idle
C13_Witness ==
    /\ olast.op = "destroy"
    /\ olast.ctrl # 0
    /\ cstate[olast.ctrl].status = "connected"
    /\ destroyCalls[olast.ctrl] = 1
    /\ controller = 0
    /\ getState = IdleState

Accessors == {"getGranterAddress", "getGranteeAddress", "getSigningClient"}

\* C14: in every state whose status is not connected, getGranterAddress(),
\* getGranteeAddress() and getSigningClient() fail with a NotConnected
\* error; in every connected state the state carries both addresses and the
\* signing handle and the three return them; and a call of any of them
\* leaves the orchestrator and the collaborator as they were.
C14_AccessorsGuarded ==
    /\ [](IF isConnected
          THEN /\ getState.account.granterAddress # ""
               /\ getState.account.granteeAddress # ""
               /\ getState.signingClient
               /\ getGranterAddressOf(getState) = getState.account.granterAddress
               /\ getGranteeAddressOf(getState) = getState.account.granteeAddress
               /\ getSigningClientOf(getState) = "client"
          ELSE /\ getGranterAddressOf(getState) = NotConnected
               /\ getGranteeAddressOf(getState) = NotConnected
               /\ getSigningClientOf(getState) = NoSigningClient)
    /\ [][olast'.op \in Accessors =>
             /\ accvars' = accvars
             /\ kvars' = kvars
             /\ IF isConnected
                THEN olast'.outcome = "resolved" /\ olast'.msg \notin NotConnectedErrors \cup {""}
                ELSE olast'.outcome = "rejected" /\ olast'.msg \in NotConnectedErrors]_vars

\* getGranterAddress() has failed on an orchestrator whose connect() failed
C14_Witness ==
    /\ olast.op = "getGranterAddress"
    /\ olast.outcome = "rejected"
    /\ olast.msg = NotConnected
    /\ getState.status = "error"
    /\ connectCalls[controller] = 1

\* C15: when a connect() returns successfully, isConnected() is true and
\* getGranterAddress() and getGranteeAddress() return two different,
\* non-empty addresses.
C15_ConnectedAfterConnect ==
    [][(olast'.op = "connect" /\ olast'.outcome = "resolved") =>
          LET st == getStateOf(controller', cstate')
          IN  /\ st.status = "connected"
              /\ getGranterAddressOf(st) \notin NotConnectedErrors \cup {""}
              /\ getGranteeAddressOf(st) \notin NotConnectedErrors \cup {""}
              /\ getGranterAddressOf(st) # getGranteeAddressOf(st)]_vars

\* C16: in every state reached without a connect() call,
\* getGranterAddress() and getGranteeAddress() fail with NotConnected.
C16_NoAddressBeforeConnect ==
    connectIssued = 0 =>
        /\ getGranterAddressOf(getState) = NotConnected
        /\ getGranteeAddressOf(getState) = NotConnected

\* C16, amended: in every state reached without a connect() call and with
\* no session in the Persistence Port, getGranterAddress() and
\* getGranteeAddress() fail with NotConnected.
C16_NoAddressWithoutSession ==
    (connectIssued = 0 /\ ~persisted) =>
        /\ getGranterAddressOf(getState) = NotConnected
        /\ getGranteeAddressOf(getState) = NotConnected

\* initialize() has completed with nothing to restore, no connect() was
\* called, and getGranterAddress() fails
C16_Witness ==
    /\ connectIssued = 0
    /\ ~persisted
    /\ controller # 0
    /\ cinit[controller] = "done"
    /\ authorized = {}
    /\ olast.op = "initialize"
    /\ olast.outcome = "resolved"
    /\ getGranterAddressOf(getState) = NotConnected

\* C17: getState() is connected only while the orchestrator holds a
\* controller on which the collaborator has completed an authorization;
\* with no controller getState() is idle, and with a controller it is the
\* state the collaborator reports for that controller.
C17_ConnectedOnlyFromCollaborator ==
    /\ isConnected => (controller # 0 /\ controller \in authorized)
    /\ controller = 0 => getState = IdleState
    /\ controller # 0 => getState = cstate[controller]

\* a first controller was destroyed before any authorization; the second
\* was authorized by the collaborator and is reported connected
C17_Witness ==
    /\ isConnected
    /\ controller = 2
    /\ authorized = {2}
    /\ destroyCalls[1] = 1
    /\ cstate[1].status # "connected"

\* C18: an orchestrator whose configuration lacks the fee granter or the
\* contract checksum never constructs a controller, never invokes the
\* collaborator, and stays idle.
C18_InvalidConfigRejected ==
    validateConfig(config) # "ok" =>
        /\ constructed = 0
        /\ controller = 0
        /\ \A c \in Controllers : initCalls[c] = 0 /\ connectCalls[c] = 0
        /\ getState = IdleState

UpdateIssued == olast'.op = "updateGetSignerConfig" /\ nops' = nops + 1

\* C19: updateGetSignerConfig(p) stores p in the configuration and binds it
\* to the controller the orchestrator holds, if it holds one, and changes
\* nothing else: the controller, the state and the session are what they
\* were.  Every controller is constructed with the provider stored at that
\* moment, so the controller held always uses the stored provider.
C19_UpdateProviderOnly ==
    /\ [](controller # 0 => cprov[controller] = config.getSignerConfig)
    /\ [][UpdateIssued =>
             LET p == olast'.msg
             IN  /\ p \in Providers
                 /\ config' = [config EXCEPT !.getSignerConfig = p]
                 /\ \A c \in Controllers :
                       cprov'[c] = IF c = controller THEN p ELSE cprov[c]
                 /\ getStateOf(controller', cstate') = getState
                 /\ <<controller, constructed, cstate, cinit, initCalls, connectCalls,
                      disconnectCalls, destroyCalls, persisted, calls, authorized>>' =
                    <<controller, constructed, cstate, cinit, initCalls, connectCalls,
                      disconnectCalls, destroyCalls, persisted, calls, authorized>>]_vars
    /\ [][constructed' # constructed =>
             cprov'[constructed'] = config.getSignerConfig]_vars

\* the provider was replaced by p2 while the first controller was held; the
\* controller was destroyed and a later initialize() constructed a second
\* one, which uses p2
C19_Witness ==
    /\ config.getSignerConfig = "p2"
    /\ cprov[1] = "p2"
    /\ destroyCalls[1] = 1
    /\ controller = 2
    /\ cprov[2] = "p2"
    /\ olast.op = "initialize"

\* C20: at most one invocation of the collaborator's connect is unresolved
\* at any time.
C20_SingleFlightConnect ==
    Cardinality({s \in Slots : calls[s].pc = "conn_await"}) <= 1

\* C21: an initialize(), or a connect(), issued while the orchestrator holds
\* a controller whose initialization has failed invokes the collaborator's
\* initialize again instead of going on with that controller as it is.
C21_RetryAfterFailedInitialize ==
    [][((InitializeIssued \/ ConnectIssued)
           /\ controller # 0 /\ cinit[controller] = "failed") =>
          /\ initCalls' # initCalls
          /\ cinit'[controller'] = "pending"]_vars

\* C22: the orchestrator drops its reference to a controller only once the
\* collaborator's disconnect or destroy has been invoked on that controller,
\* and a disconnect() that resumes after its await drops no controller
\* other than the one it disconnected.
C22_NoControllerDroppedUntorn ==
    [][(controller # 0 /\ controller' # controller) =>
          /\ disconnectCalls'[controller] + destroyCalls'[controller] > 0
          /\ (olast'.op = "disconnect" => olast'.ctrl = controller)]_vars

(***************************************************************************)
(* In-memory Persistence Port: properties                                  *)
(***************************************************************************)
\* C23: on every instance and for every key, getItem resolves to the value
\* of the last setItem of that key on that instance, the empty string
\* included, and to null if the key was never set there or was removed or
\* cleared since; calls on the other instance do not change it.
C23_GetItemReturnsLastSet ==
    /\ \A i \in Instances, k \in StoreKeys : getItemOf(storage[i], k) = written[i][k]
    /\ slast.op = "getItem" => slast.ret = written[slast.inst][slast.key]

====
